---- MODULE Spec2Model ----
(***************************************************************************)
(* Model of gmail_mcp_server.py: the send_gmail tool, build_raw_email and  *)
(* the attachment helpers _resolve_attachment_path / _safe_read_file.      *)
(*                                                                         *)
(* Strings that the code inspects character by character (paths, base64    *)
(* payloads, MIME types, filenames) are sequences of one-character         *)
(* strings, so that startswith, split, basename and normpath are computed  *)
(* the way posixpath computes them.                                        *)
(***************************************************************************)
EXTENDS Integers, Sequences, FiniteSets, TLC

(* Python's None, for an Optional[str] whose other values are sequences of *)
(* characters: a one-element sequence that is no string of characters      *)
None == <<"None">>

(* ---------------------------------------------------------------------- *)
(* Bounds of the model                                                     *)
(* ---------------------------------------------------------------------- *)
(* greatest number of attachments in one request *)
MaxAtts == 2

(* ---------------------------------------------------------------------- *)
(* posixpath                                                               *)
(* ---------------------------------------------------------------------- *)
sep == "/"

(* Python truthiness of an Optional[str]: None and "" are falsy *)
Truthy(s) == s # None /\ s # <<>>

(* str.startswith *)
StartsWith(s, prefix) ==
    /\ Len(prefix) <= Len(s)
    /\ SubSeq(s, 1, Len(prefix)) = prefix

(* os.path.isabs *)
isabs(p) == StartsWith(p, <<sep>>)

(* str.endswith(sep) *)
EndsWithSep(p) == Len(p) > 0 /\ p[Len(p)] = sep

(* os.path.join(a, b) for two arguments *)
join(a, b) ==
    IF isabs(b) THEN b
    ELSE IF a = <<>> \/ EndsWithSep(a) THEN a \o b
    ELSE a \o <<sep>> \o b

(* position of the last separator in p, 0 when there is none (str.rfind + 1) *)
RECURSIVE rfindSep(_, _)
rfindSep(p, i) ==
    IF i = 0 THEN 0
    ELSE IF p[i] = sep THEN i
    ELSE rfindSep(p, i - 1)

(* os.path.basename *)
basename(p) == SubSeq(p, rfindSep(p, Len(p)) + 1, Len(p))

(* str.split("/"): the components between separators, empty ones included *)
RECURSIVE splitFrom(_, _, _)
splitFrom(p, i, cur) ==
    IF i > Len(p) THEN <<cur>>
    ELSE IF p[i] = sep THEN <<cur>> \o splitFrom(p, i + 1, <<>>)
    ELSE splitFrom(p, i + 1, Append(cur, p[i]))

split(p) == splitFrom(p, 1, <<>>)

DotDot == <<".", ".">>
Dot == <<".">>

(* the loop of posixpath.normpath over the components *)
RECURSIVE normComps(_, _, _, _)
normComps(comps, i, initial_slashes, new_comps) ==
    IF i > Len(comps) THEN new_comps
    ELSE LET comp == comps[i] IN
         IF comp = <<>> \/ comp = Dot
         THEN normComps(comps, i + 1, initial_slashes, new_comps)
         ELSE IF \/ comp # DotDot
                 \/ (initial_slashes = 0 /\ new_comps = <<>>)
                 \/ (new_comps # <<>> /\ new_comps[Len(new_comps)] = DotDot)
         THEN normComps(comps, i + 1, initial_slashes, Append(new_comps, comp))
         ELSE IF new_comps # <<>>
         THEN normComps(comps, i + 1, initial_slashes,
                        SubSeq(new_comps, 1, Len(new_comps) - 1))
         ELSE normComps(comps, i + 1, initial_slashes, new_comps)

(* "/".join(comps) *)
RECURSIVE joinComps(_)
joinComps(comps) ==
    IF comps = <<>> THEN <<>>
    ELSE IF Len(comps) = 1 THEN comps[1]
    ELSE comps[1] \o <<sep>> \o joinComps(Tail(comps))

(* number of leading slashes normpath keeps: 0, 1, or 2 for exactly two *)
InitialSlashes(p) ==
    IF ~StartsWith(p, <<sep>>) THEN 0
    ELSE IF StartsWith(p, <<sep, sep>>) /\ ~StartsWith(p, <<sep, sep, sep>>) THEN 2
    ELSE 1

(* posixpath.normpath *)
normpath(p) ==
    IF p = <<>> THEN Dot
    ELSE LET n == InitialSlashes(p)
             body == joinComps(normComps(split(p), 1, n, <<>>))
             lead == IF n = 2 THEN <<sep, sep>> ELSE IF n = 1 THEN <<sep>> ELSE <<>>
             res == lead \o body
         IN IF res = <<>> THEN Dot ELSE res

(* os.path.abspath, with the process's working directory cwd *)
abspath(p, cwd) == normpath(IF isabs(p) THEN p ELSE join(cwd, p))

(* ---------------------------------------------------------------------- *)
(* base64.b64decode (binascii.a2b_base64, validate=False)                  *)
(* ---------------------------------------------------------------------- *)
(* the standard alphabet; the value of a character is its index minus one *)
B64Chars ==
    << "A","B","C","D","E","F","G","H","I","J","K","L","M","N","O","P",
       "Q","R","S","T","U","V","W","X","Y","Z","a","b","c","d","e","f",
       "g","h","i","j","k","l","m","n","o","p","q","r","s","t","u","v",
       "w","x","y","z","0","1","2","3","4","5","6","7","8","9","+","/" >>

BASE64_PAD == "="

InAlphabet(ch) == \E k \in 1..Len(B64Chars) : B64Chars[k] = ch

table_a2b_base64(ch) == (CHOOSE k \in 1..Len(B64Chars) : B64Chars[k] = ch) - 1

(* outcome of a decode *)
DecodeOk(bytes) == [ok |-> TRUE, data |-> bytes]
DecodeError == [ok |-> FALSE, data |-> <<>>]

(* the decoding loop of a2b_base64 in non-strict mode: characters outside *)
(* the alphabet are skipped, a complete pad sequence ends the parse, and   *)
(* input that ends inside a quad is an error                               *)
RECURSIVE a2b_base64(_, _, _, _, _, _)
a2b_base64(s, i, quad_pos, pads, leftchar, out) ==
    IF i > Len(s)
    THEN IF quad_pos # 0 THEN DecodeError ELSE DecodeOk(out)
    ELSE LET ch == s[i] IN
         IF ch = BASE64_PAD
         THEN IF quad_pos >= 2 /\ quad_pos + pads + 1 >= 4
              THEN DecodeOk(out)
              ELSE a2b_base64(s, i + 1, quad_pos,
                              IF quad_pos >= 2 THEN pads + 1 ELSE pads,
                              leftchar, out)
         ELSE IF ~InAlphabet(ch)
         THEN a2b_base64(s, i + 1, quad_pos, pads, leftchar, out)
         ELSE LET v == table_a2b_base64(ch) IN
              CASE quad_pos = 0 ->
                     a2b_base64(s, i + 1, 1, 0, v, out)
                [] quad_pos = 1 ->
                     a2b_base64(s, i + 1, 2, 0, v % 16,
                                Append(out, ((leftchar * 4) + (v \div 16)) % 256))
                [] quad_pos = 2 ->
                     a2b_base64(s, i + 1, 3, 0, v % 4,
                                Append(out, ((leftchar * 16) + (v \div 4)) % 256))
                [] quad_pos = 3 ->
                     a2b_base64(s, i + 1, 0, 0, 0,
                                Append(out, ((leftchar * 64) + v) % 256))

b64decode(s) == a2b_base64(s, 1, 0, 0, 0, <<>>)

(* ---------------------------------------------------------------------- *)
(* mimetypes.guess_type and the split of a MIME type                       *)
(* ---------------------------------------------------------------------- *)
ApplicationOctetStream ==
    << "a","p","p","l","i","c","a","t","i","o","n","/",
       "o","c","t","e","t","-","s","t","r","e","a","m" >>
OctetStream == << "o","c","t","e","t","-","s","t","r","e","a","m" >>
ApplicationPdf == << "a","p","p","l","i","c","a","t","i","o","n","/","p","d","f" >>
TextPlain == << "t","e","x","t","/","p","l","a","i","n" >>

(* position of the last "." in s, 0 when there is none *)
RECURSIVE rfindDot(_, _)
rfindDot(s, i) ==
    IF i = 0 THEN 0
    ELSE IF s[i] = "." THEN i
    ELSE rfindDot(s, i - 1)

(* mimetypes.guess_type(filename)[0]: the type of the extension after the  *)
(* last dot of the final path segment, None when the table has none        *)
guess_type(filename) ==
    LET base == basename(filename)
        d == rfindDot(base, Len(base))
        ext == IF d <= 1 THEN <<>> ELSE SubSeq(base, d, Len(base))
    IN IF ext = <<".", "p", "d", "f">> THEN ApplicationPdf
       ELSE IF ext = <<".", "t", "x", "t">> THEN TextPlain
       ELSE None

(* guessed or "application/octet-stream" *)
GuessedOrDefault(filename) ==
    LET guessed == guess_type(filename)
    IN IF Truthy(guessed) THEN guessed ELSE ApplicationOctetStream

(* position of the first "/" in s at or after i, 0 when there is none *)
RECURSIVE findSep(_, _)
findSep(s, i) ==
    IF i > Len(s) THEN 0
    ELSE IF s[i] = sep THEN i
    ELSE findSep(s, i + 1)

(* (mime_type.split("/", 1) + ["octet-stream"])[:2] *)
SplitMime(mime_type) ==
    LET k == findSep(mime_type, 1)
    IN IF k = 0 THEN <<mime_type, OctetStream>>
       ELSE <<SubSeq(mime_type, 1, k - 1), SubSeq(mime_type, k + 1, Len(mime_type))>>

(* ---------------------------------------------------------------------- *)
(* int(os.getenv("MAX_ATTACHMENT_MB", "20"))                               *)
(* ---------------------------------------------------------------------- *)
Digits == <<"0", "1", "2", "3", "4", "5", "6", "7", "8", "9">>

IsDigit(ch) == \E k \in 1..10 : Digits[k] = ch

DigitVal(ch) == (CHOOSE k \in 1..10 : Digits[k] = ch) - 1

(* a string int() accepts: here, a non-empty run of decimal digits *)
IsIntLiteral(s) == Len(s) > 0 /\ \A k \in 1..Len(s) : IsDigit(s[k])

RECURSIVE int(_)
int(s) ==
    IF s = <<>> THEN 0
    ELSE int(SubSeq(s, 1, Len(s) - 1)) * 10 + DigitVal(s[Len(s)])

(* os.getenv(name, default) on the environment e *)
getenv(e, name, default) == IF e[name] = None THEN default ELSE e[name]

DefaultBaseDir == <<"/", "s", "h", "a", "r", "e", "d">>
DefaultMaxMb == <<"2", "0">>
MiB == 1024 * 1024

(* ---------------------------------------------------------------------- *)
(* base64.encodebytes, used by encoders.encode_base64                      *)
(* ---------------------------------------------------------------------- *)
(* the four characters of one group of up to three bytes *)
EncodeGroup(g) ==
    LET b1 == g[1]
        b2 == IF Len(g) >= 2 THEN g[2] ELSE 0
        b3 == IF Len(g) >= 3 THEN g[3] ELSE 0
        c1 == B64Chars[(b1 \div 4) + 1]
        c2 == B64Chars[((b1 % 4) * 16) + (b2 \div 16) + 1]
        c3 == IF Len(g) >= 2 THEN B64Chars[((b2 % 16) * 4) + (b3 \div 64) + 1]
              ELSE BASE64_PAD
        c4 == IF Len(g) >= 3 THEN B64Chars[(b3 % 64) + 1] ELSE BASE64_PAD
    IN <<c1, c2, c3, c4>>

RECURSIVE b2a_base64(_)
b2a_base64(bytes) ==
    IF bytes = <<>> THEN <<>>
    ELSE IF Len(bytes) <= 3 THEN EncodeGroup(bytes)
    ELSE EncodeGroup(SubSeq(bytes, 1, 3)) \o b2a_base64(SubSeq(bytes, 4, Len(bytes)))

(* base64.encodebytes for data of at most 57 bytes: one line, ended by a   *)
(* newline; no line at all for empty data                                  *)
encodebytes(bytes) ==
    IF bytes = <<>> THEN <<>> ELSE b2a_base64(bytes) \o <<"\n">>

(* ---------------------------------------------------------------------- *)
(* The process's surroundings: working directory and filesystem            *)
(* ---------------------------------------------------------------------- *)
(* os.getcwd() *)
cwd == <<"/", "a", "p", "p">>

SharedF == DefaultBaseDir \o <<"/", "f">>
SharedG == DefaultBaseDir \o <<"/", "g">>
SharedSub == DefaultBaseDir \o <<"/", "s", "u", "b">>
Shared2 == DefaultBaseDir \o <<"2">>
EtcPasswd == <<"/", "e", "t", "c", "/", "p", "a", "s", "s", "w", "d">>
OutsideTxt == <<"/", "o", "u", "t", "s", "i", "d", "e", ".", "t", "x", "t">>

Dir == [kind |-> "dir", size |-> 4096, content |-> <<>>]
File(size, content) == [kind |-> "file", size |-> size, content |-> content]

(* the files the requests refer to; a file of MiB size is given by its     *)
(* st_size and by the leading bytes that tell its content from the others  *)
fs ==
    (<<sep>> :> Dir) @@
    (cwd :> Dir) @@
    (<<"/", "e", "t", "c">> :> Dir) @@
    (DefaultBaseDir :> Dir) @@
    (SharedSub :> Dir) @@
    (SharedF :> File(1 * MiB, <<102>>)) @@
    (SharedG :> File(1 * MiB + 1, <<103, 103>>)) @@
    (Shared2 :> File(2, <<50, 50>>)) @@
    (EtcPasswd :> File(4, <<114, 111, 111, 116>>)) @@
    (OutsideTxt :> File(1, <<120>>))

(* the name the kernel looks up for an absolute normalised path: two       *)
(* leading slashes name the root like one                                  *)
OsPath(p) == IF StartsWith(p, <<sep, sep>>) THEN Tail(p) ELSE p

Exists(p) == OsPath(p) \in DOMAIN fs

(* ---------------------------------------------------------------------- *)
(* _safe_read_file                                                         *)
(* ---------------------------------------------------------------------- *)
ReadOk(data, log) == [ok |-> TRUE, error |-> "", data |-> data, log |-> log]
ReadFail(error, log) == [ok |-> FALSE, error |-> error, data |-> <<>>, log |-> log]

Access(op, p) == [op |-> op, path |-> p]

(* the containment test without the separator: p.startswith(b) *)
InsideBaseNoSep(p, b) == p = b \/ StartsWith(p, b)

(* the containment test: p == b or p.startswith(b + os.sep) *)
InsideBase(p, b) == p = b \/ StartsWith(p, b \o <<sep>>)

(* the size test with >= in place of > *)
TooLargeAtLimit(size, max_mb) == size >= max_mb * MiB

(* the size test: size > max_mb * 1024 * 1024 *)
TooLarge(size, max_mb) == size > max_mb * MiB

(* _safe_read_file(path, base_dir) in environment e: the outcome, and the  *)
(* filesystem calls made, in order                                         *)
_safe_read_file(path, base_dir, e) ==
    LET p == abspath(path, cwd)
        max_s == getenv(e, "MAX_ATTACHMENT_MB", DefaultMaxMb)
    IN IF Truthy(base_dir) /\ ~InsideBase(p, abspath(base_dir, cwd))
       THEN ReadFail("PathEscape", <<>>)
       ELSE IF ~IsIntLiteral(max_s)
       THEN ReadFail("ConfigError", <<>>)
       ELSE IF ~Exists(p)
       THEN ReadFail("ReadError", <<Access("getsize", p)>>)
       ELSE IF TooLarge(fs[OsPath(p)].size, int(max_s))
       THEN ReadFail("TooLarge", <<Access("getsize", p)>>)
       ELSE IF fs[OsPath(p)].kind # "file"
       THEN ReadFail("ReadError", <<Access("getsize", p), Access("open", p)>>)
       ELSE ReadOk(fs[OsPath(p)].content,
                   <<Access("getsize", p), Access("open", p), Access("read", p)>>)

(* ---------------------------------------------------------------------- *)
(* _resolve_attachment_path                                                *)
(* ---------------------------------------------------------------------- *)
_resolve_attachment_path(path, base_dir) ==
    IF Truthy(path) /\ ~isabs(path) THEN join(base_dir, path) ELSE path

(* ---------------------------------------------------------------------- *)
(* Inputs                                                                  *)
(* ---------------------------------------------------------------------- *)
AttachmentSpec(filename, mime_type, content_base64, path) ==
    [filename |-> filename, mime_type |-> mime_type,
     content_base64 |-> content_base64, path |-> path]

NameATxt == <<"a", ".", "t", "x", "t">>
MimeText == <<"t", "e", "x", "t">>

(* base64("hello"), the same with a character outside the alphabet, and    *)
(* the same without its padding                                            *)
B64Hello == <<"a", "G", "V", "s", "b", "G", "8", "=">>
B64BadChar == <<"a", "G", "V", "s", "!", "b", "G", "8", "=">>
B64BadPad == <<"a", "G", "V", "s", "b", "G", "8">>

PathF == <<"f">>
PathG == <<"g">>
PathFSlash == <<"f", "/">>
PathUpPasswd == <<".", ".", "/", ".", ".", "/", "e", "t", "c", "/", "p", "a", "s", "s", "w", "d">>
PathSubOutside == SharedSub \o <<"/", ".", ".", "/", ".", ".", "/", "o", "u", "t", "s", "i", "d", "e", ".", "t", "x", "t">>
PathSubUpF == <<"s", "u", "b", "/", ".", ".", "/", "f">>
PathMissing == <<"x">>

Paths ==
    { PathF, PathG, PathFSlash, PathUpPasswd, PathSubOutside, PathSubUpF,
      PathMissing, Shared2, DefaultBaseDir }

PathSpecs ==
    { AttachmentSpec(None, None, None, p) : p \in Paths }
    \cup { AttachmentSpec(NameATxt, MimeText, None, PathF) }

Base64Specs ==
    { AttachmentSpec(NameATxt, None, B64Hello, None),
      AttachmentSpec(None, None, B64Hello, None),
      AttachmentSpec(<<>>, None, B64Hello, None),
      AttachmentSpec(NameATxt, None, B64BadChar, None),
      AttachmentSpec(NameATxt, None, B64BadPad, None) }

BothSpecs ==
    { AttachmentSpec(NameATxt, None, B64Hello, PathF),
      AttachmentSpec(None, None, <<>>, PathF),
      AttachmentSpec(NameATxt, None, B64Hello, <<>>) }

NeitherSpecs ==
    { AttachmentSpec(None, None, None, None),
      AttachmentSpec(NameATxt, None, <<>>, None) }

AttachmentSpecs == PathSpecs \cup Base64Specs \cup BothSpecs \cup NeitherSpecs

(* the sequences of at most n elements of S *)
SeqsUpTo(S, n) == UNION { [1..k -> S] : k \in 0..n }

SendRequest(to, subject, body, body_format, attachments) ==
    [to |-> to, subject |-> subject, body |-> body,
     body_format |-> body_format, attachments |-> attachments]

Requests ==
    { SendRequest("a@example.com", "Hi", "<b>hello</b>", f, atts) :
        f \in {"plain", "html"}, atts \in SeqsUpTo(AttachmentSpecs, MaxAtts) }

(* the requests of the runs with two invocations or a changing environment *)
SmallAttachments ==
    { <<>>,
      <<AttachmentSpec(None, None, None, PathF)>>,
      <<AttachmentSpec(NameATxt, None, B64Hello, None)>>,
      <<AttachmentSpec(None, None, None, PathF),
        AttachmentSpec(NameATxt, None, B64Hello, None)>>,
      <<AttachmentSpec(None, None, None, PathSubUpF),
        AttachmentSpec(None, None, None, PathUpPasswd)>>,
      <<AttachmentSpec(NameATxt, None, B64BadPad, None),
        AttachmentSpec(None, None, None, PathF)>>,
      <<AttachmentSpec(NameATxt, None, B64Hello, PathF)>>,
      <<AttachmentSpec(None, None, None, None)>> }

SmallRequests ==
    { SendRequest(to, "Hi", "hello", "plain", atts) :
        to \in {"a@example.com", "b@example.com"}, atts \in SmallAttachments }

BaseDirValues == { None, <<>>, <<sep>>, DefaultBaseDir \o <<sep>> }
MaxMbValues == { None, <<"1">>, <<"x">> }

Environments ==
    [ATTACHMENTS_BASE_DIR : BaseDirValues, MAX_ATTACHMENT_MB : MaxMbValues]

(* the invocations of send_gmail a run may hold *)
Invocations == {1, 2}

(* ---------------------------------------------------------------------- *)
(* State                                                                   *)
(* ---------------------------------------------------------------------- *)
VARIABLES
    env,        \* os.environ: ATTACHMENTS_BASE_DIR and MAX_ATTACHMENT_MB
    pc,         \* per invocation: its position in send_gmail / build_raw_email
    request,    \* per invocation: the arguments of send_gmail
    msg,        \* per invocation: the MIMEMultipart being built
    idx,        \* per invocation: position of the for loop over attachments
    local,      \* per invocation: locals of the loop body and of the helpers
    raw,        \* per invocation: the encoded message
    outcome,    \* per invocation: what send_gmail returned or raised
    fsLog,      \* the filesystem calls made, in order, with their invocation
    sent        \* the calls MailSender received, in order

vars == <<env, pc, request, msg, idx, local, raw, outcome, fsLog, sent>>

NoRequest == SendRequest("", "", "", "plain", <<>>)
NoMsg == [To |-> "", Subject |-> "", parts |-> <<>>]
NoLocal ==
    [filename |-> None, mime_type |-> None, path |-> None,
     resolve_base_dir |-> None, base_dir |-> None]
NoRaw == [encoded |-> FALSE, message |-> NoMsg]
NoOutcome == [status |-> "none", error |-> "", message_id |-> 0]

Init ==
    /\ env \in Environments
    /\ pc = [i \in Invocations |-> "idle"]
    /\ request = [i \in Invocations |-> NoRequest]
    /\ msg = [i \in Invocations |-> NoMsg]
    /\ idx = [i \in Invocations |-> 0]
    /\ local = [i \in Invocations |-> NoLocal]
    /\ raw = [i \in Invocations |-> NoRaw]
    /\ outcome = [i \in Invocations |-> NoOutcome]
    /\ fsLog = <<>>
    /\ sent = <<>>

(* ---------------------------------------------------------------------- *)
(* Message parts                                                           *)
(* ---------------------------------------------------------------------- *)
(* MIMEText(body, subtype, "utf-8") *)
MIMEText(body, body_format) ==
    [kind |-> "body",
     subtype |-> IF body_format = "html" THEN "html" ELSE "plain",
     charset |-> "utf-8", text |-> body]

(* MIMEBase + set_payload + encode_base64 + Content-Disposition *)
AttachmentPart(mime_type, data, filename) ==
    [kind |-> "attachment",
     maintype |-> SplitMime(mime_type)[1],
     subtype |-> SplitMime(mime_type)[2],
     transfer_encoding |-> "base64",
     payload |-> encodebytes(data),
     disposition |-> "attachment",
     filename |-> filename]

(* attach that puts the part before the others *)
attachFirst(m, part) == [m EXCEPT !.parts = <<part>> \o @]

(* msg.attach(part) *)
attach(m, part) == [m EXCEPT !.parts = Append(@, part)]

(* base64.urlsafe_b64encode(msg.as_bytes()), kept as the message it encodes *)
EncodedMessage(m) == [encoded |-> TRUE, message |-> m]

(* the loop walking the attachments from the last to the first *)
CurrentAttReversed(i) ==
    request[i].attachments[Len(request[i].attachments) - idx[i] + 1]

(* the attachment the loop of invocation i is at *)
CurrentAtt(i) == request[i].attachments[idx[i]]

InLoop(i) == pc[i] = "loop" /\ idx[i] <= Len(request[i].attachments)

(* an exception leaves build_raw_email and send_gmail *)
Raise(i, error) ==
    /\ pc' = [pc EXCEPT ![i] = "raised"]
    /\ outcome' = [outcome EXCEPT ![i] = [status |-> "raised", error |-> error,
                                          message_id |-> 0]]

(* the tagged filesystem calls of invocation i *)
Tagged(i, log) == [k \in 1..Len(log) |-> [inv |-> i, op |-> log[k].op, path |-> log[k].path]]

(* ---------------------------------------------------------------------- *)
(* send_gmail                                                              *)
(* ---------------------------------------------------------------------- *)
(* the tool is invoked with a request of R *)
Call(i, R) ==
    /\ pc[i] = "idle"
    /\ \E req \in R : request' = [request EXCEPT ![i] = req]
    /\ pc' = [pc EXCEPT ![i] = "service"]
    /\ UNCHANGED <<env, msg, idx, local, raw, outcome, fsLog, sent>>

(* service = get_gmail_service(): the credential provider answers or raises *)
GetService(i) ==
    /\ pc[i] = "service"
    /\ \E ok \in BOOLEAN :
         IF ok THEN pc' = [pc EXCEPT ![i] = "build"] /\ UNCHANGED outcome
         ELSE Raise(i, "AuthError")
    /\ UNCHANGED <<env, request, msg, idx, local, raw, fsLog, sent>>

(* the headers kept in one place for all invocations *)
NewMessageShared(i) ==
    [To |-> request[1].to, Subject |-> request[1].subject, parts |-> <<>>]

(* msg = MIMEMultipart(); msg["To"] = to; msg["Subject"] = subject *)
NewMessage(i) ==
    [To |-> request[i].to, Subject |-> request[i].subject, parts |-> <<>>]

(* build_raw_email up to the loop: headers and the body part *)
BuildStart(i) ==
    /\ pc[i] = "build"
    /\ msg' = [msg EXCEPT ![i] =
                 attach(NewMessage(i),
                        MIMEText(request[i].body, request[i].body_format))]
    /\ idx' = [idx EXCEPT ![i] = 1]
    /\ pc' = [pc EXCEPT ![i] = "loop"]
    /\ UNCHANGED <<env, request, local, raw, outcome, fsLog, sent>>

(* the loop body without the test of line 126 *)
BothSourcesUnchecked(att) == FALSE

(* the test of line 126: content_b64 and path *)
BothSources(att) == Truthy(att.content_base64) /\ Truthy(att.path)

(* if content_b64 and path: raise *)
Conflict(i) ==
    /\ InLoop(i)
    /\ BothSources(CurrentAtt(i))
    /\ Raise(i, "ConflictingSource")
    /\ UNCHANGED <<env, request, msg, idx, local, raw, fsLog, sent>>

(* filename = os.path.basename(path) when the spec gives none *)
PathFilename(filename, path) ==
    IF Truthy(filename) THEN filename ELSE basename(path)

(* mime_type = guessed or "application/octet-stream" when the spec gives none *)
MimeTypeFor(mime_type, filename) ==
    IF Truthy(mime_type) THEN mime_type ELSE GuessedOrDefault(filename)

(* the path branch up to the read: _resolve_attachment_path reads the      *)
(* environment, then filename and mime_type are filled in                  *)
ResolvePath(i) ==
    /\ InLoop(i)
    /\ ~BothSources(CurrentAtt(i))
    /\ Truthy(CurrentAtt(i).path)
    /\ LET att == CurrentAtt(i)
           resolve_base_dir == getenv(env, "ATTACHMENTS_BASE_DIR", DefaultBaseDir)
           path == _resolve_attachment_path(att.path, resolve_base_dir)
           filename == PathFilename(att.filename, path)
       IN local' = [local EXCEPT ![i] =
                      [filename |-> filename,
                       mime_type |-> MimeTypeFor(att.mime_type, filename),
                       path |-> path,
                       resolve_base_dir |-> resolve_base_dir,
                       base_dir |-> None]]
    /\ pc' = [pc EXCEPT ![i] = "read"]
    /\ UNCHANGED <<env, request, msg, idx, raw, outcome, fsLog, sent>>

(* base_dir = os.getenv(...); data = _safe_read_file(path, base_dir); then *)
(* the part is attached                                                    *)
ReadFile(i) ==
    /\ pc[i] = "read"
    /\ LET base_dir == getenv(env, "ATTACHMENTS_BASE_DIR", DefaultBaseDir)
           r == _safe_read_file(local[i].path, base_dir, env)
       IN /\ local' = [local EXCEPT ![i].base_dir = base_dir]
          /\ fsLog' = fsLog \o Tagged(i, r.log)
          /\ IF r.ok
             THEN /\ msg' = [msg EXCEPT ![i] =
                               attach(@, AttachmentPart(local[i].mime_type, r.data,
                                                        local[i].filename))]
                  /\ idx' = [idx EXCEPT ![i] = @ + 1]
                  /\ pc' = [pc EXCEPT ![i] = "loop"]
                  /\ UNCHANGED outcome
             ELSE /\ Raise(i, r.error)
                  /\ UNCHANGED <<msg, idx>>
    /\ UNCHANGED <<env, request, raw, sent>>

(* the base64 branch: filename required, then b64decode, then the part *)
Base64Attachment(i) ==
    /\ InLoop(i)
    /\ ~BothSources(CurrentAtt(i))
    /\ ~Truthy(CurrentAtt(i).path)
    /\ Truthy(CurrentAtt(i).content_base64)
    /\ LET att == CurrentAtt(i)
           d == b64decode(att.content_base64)
       IN IF ~Truthy(att.filename)
          THEN Raise(i, "MissingFilename") /\ UNCHANGED <<msg, idx, local>>
          ELSE IF ~d.ok
          THEN Raise(i, "InvalidBase64") /\ UNCHANGED <<msg, idx, local>>
          ELSE /\ msg' = [msg EXCEPT ![i] =
                            attach(@, AttachmentPart(
                                        MimeTypeFor(att.mime_type, att.filename),
                                        d.data, att.filename))]
               /\ local' = [local EXCEPT ![i] =
                              [NoLocal EXCEPT
                                 !.filename = att.filename,
                                 !.mime_type = MimeTypeFor(att.mime_type, att.filename)]]
               /\ idx' = [idx EXCEPT ![i] = @ + 1]
               /\ UNCHANGED <<pc, outcome>>
    /\ UNCHANGED <<env, request, raw, fsLog, sent>>

(* else: raise ValueError("attachment requires content_base64 or path") *)
NoSource(i) ==
    /\ InLoop(i)
    /\ ~BothSources(CurrentAtt(i))
    /\ ~Truthy(CurrentAtt(i).path)
    /\ ~Truthy(CurrentAtt(i).content_base64)
    /\ Raise(i, "MissingSource")
    /\ UNCHANGED <<env, request, msg, idx, local, raw, fsLog, sent>>

(* the return of raw placed inside the loop: it no longer waits for the    *)
(* last attachment                                                         *)
FinishBuildEarly(i) ==
    /\ pc[i] = "loop"
    /\ raw' = [raw EXCEPT ![i] = EncodedMessage(msg[i])]
    /\ pc' = [pc EXCEPT ![i] = "send"]
    /\ UNCHANGED <<env, request, msg, idx, local, outcome, fsLog, sent>>

(* the loop is over: raw = urlsafe_b64encode(msg.as_bytes()); return raw *)
FinishBuild(i) ==
    /\ pc[i] = "loop"
    /\ idx[i] > Len(request[i].attachments)
    /\ raw' = [raw EXCEPT ![i] = EncodedMessage(msg[i])]
    /\ pc' = [pc EXCEPT ![i] = "send"]
    /\ UNCHANGED <<env, request, msg, idx, local, outcome, fsLog, sent>>

(* sent = service.users().messages().send(...).execute(): MailSender gets  *)
(* the call, and either answers with an id or raises                       *)
Send(i) ==
    /\ pc[i] = "send"
    /\ sent' = Append(sent, [inv |-> i, raw |-> raw[i]])
    /\ \E ok \in BOOLEAN :
         IF ok
         THEN /\ pc' = [pc EXCEPT ![i] = "returned"]
              /\ outcome' = [outcome EXCEPT ![i] =
                               [status |-> "returned", error |-> "",
                                message_id |-> Len(sent) + 1]]
         ELSE Raise(i, "SendError")
    /\ UNCHANGED <<env, request, msg, idx, local, raw, fsLog>>

(* the host process sets ATTACHMENTS_BASE_DIR in os.environ *)
SetBaseDir ==
    /\ \E b \in BaseDirValues :
         /\ b # env.ATTACHMENTS_BASE_DIR
         /\ env' = [env EXCEPT !.ATTACHMENTS_BASE_DIR = b]
    /\ UNCHANGED <<pc, request, msg, idx, local, raw, outcome, fsLog, sent>>

(* one step of invocation i, invoked with a request of R *)
Step(i, R) ==
    \/ Call(i, R)
    \/ GetService(i)
    \/ BuildStart(i)
    \/ Conflict(i)
    \/ ResolvePath(i)
    \/ ReadFile(i)
    \/ Base64Attachment(i)
    \/ NoSource(i)
    \/ FinishBuild(i)
    \/ Send(i)

(* one invocation, the environment fixed *)
Next == Step(1, Requests)

Spec == Init /\ [][Next]_vars

(* two invocations served concurrently, the environment fixed *)
NextConc == \E i \in Invocations : Step(i, SmallRequests)

SpecConc == Init /\ [][NextConc]_vars

(* one invocation while the host changes the environment *)
NextEnv == Step(1, SmallRequests) \/ SetBaseDir

SpecEnv == Init /\ [][NextEnv]_vars

(* ---------------------------------------------------------------------- *)
(* The loop body run without interruption                                  *)
(* ---------------------------------------------------------------------- *)
Resolved(data, filename, mime_type, log) ==
    [ok |-> TRUE, error |-> "", data |-> data, filename |-> filename,
     mime_type |-> mime_type, log |-> log]
Failed(error, log) ==
    [ok |-> FALSE, error |-> error, data |-> <<>>, filename |-> None,
     mime_type |-> None, log |-> log]

(* one pass of the for loop of build_raw_email over att, in environment e *)
resolve(att, e) ==
    IF BothSources(att) THEN Failed("ConflictingSource", <<>>)
    ELSE IF Truthy(att.path)
    THEN LET base_dir == getenv(e, "ATTACHMENTS_BASE_DIR", DefaultBaseDir)
             path == _resolve_attachment_path(att.path, base_dir)
             filename == PathFilename(att.filename, path)
             r == _safe_read_file(path, base_dir, e)
         IN IF r.ok
            THEN Resolved(r.data, filename, MimeTypeFor(att.mime_type, filename), r.log)
            ELSE Failed(r.error, r.log)
    ELSE IF Truthy(att.content_base64)
    THEN IF ~Truthy(att.filename) THEN Failed("MissingFilename", <<>>)
         ELSE IF ~b64decode(att.content_base64).ok THEN Failed("InvalidBase64", <<>>)
         ELSE Resolved(b64decode(att.content_base64).data, att.filename,
                       MimeTypeFor(att.mime_type, att.filename), <<>>)
    ELSE Failed("MissingSource", <<>>)

(* ---------------------------------------------------------------------- *)
(* Vocabulary of the properties                                            *)
(* ---------------------------------------------------------------------- *)
Atts(i) == request[i].attachments

(* attachment k of invocation i has been resolved and attached *)
ResolvedAt(i, k) == k \in 1..Len(Atts(i)) /\ k < idx[i]

(* invocation i failed while resolving attachment k *)
FailedAt(i, k) == pc[i] = "raised" /\ idx[i] = k /\ k \in 1..Len(Atts(i))

(* the configured sandbox root and size ceiling *)
ConfiguredBase == getenv(env, "ATTACHMENTS_BASE_DIR", DefaultBaseDir)
ConfiguredMax == getenv(env, "MAX_ATTACHMENT_MB", DefaultMaxMb)
LimitBytes == int(ConfiguredMax) * 1024 * 1024

(* the non-empty components of a path *)
Comps(p) == SelectSeq(split(p), LAMBDA c : c # <<>>)

(* canonical p is canonical b or a proper descendant of it, by components *)
WithinDir(p, b) ==
    /\ Len(Comps(b)) <= Len(Comps(p))
    /\ SubSeq(Comps(p), 1, Len(Comps(b))) = Comps(b)

(* the canonical absolute path attachment att is read from *)
CanonicalPath(att) ==
    abspath(_resolve_attachment_path(att.path, ConfiguredBase), cwd)
CanonicalBase == abspath(ConfiguredBase, cwd)

(* att names its bytes by path only, as the code tests presence *)
PathBased(att) == Truthy(att.path) /\ ~Truthy(att.content_base64)
Base64Based(att) == Truthy(att.content_base64) /\ ~Truthy(att.path)

(* the filesystem calls of invocation i, in order *)
LogOf(i) == SelectSeq(fsLog, LAMBDA x : x.inv = i)

(* the file was opened, or opened and read *)
ContentRead(x) == x.op \in {"open", "read"}

(* the calls MailSender got from invocation i *)
SendCalls(i) == { k \in 1..Len(sent) : sent[k].inv = i }

(* the attachment parts of a message, in order *)
AttachmentParts(m) == SelectSeq(m.parts, LAMBDA part : part.kind = "attachment")

(* ---------------------------------------------------------------------- *)
(* C1  sandbox containment                                                 *)
(* ---------------------------------------------------------------------- *)
(* every read of a file's content is on a path inside the base *)
ReadsInside ==
    \A n \in 1..Len(fsLog) :
      fsLog[n].op = "read" => WithinDir(fsLog[n].path, CanonicalBase)

(* a path-based attachment that is resolved and attached is inside the     *)
(* base: none outside the base ever is                                     *)
OutsideNeverResolved ==
    \A i \in Invocations : \A k \in 1..Len(Atts(i)) :
      ResolvedAt(i, k) /\ PathBased(Atts(i)[k])
        => WithinDir(CanonicalPath(Atts(i)[k]), CanonicalBase)

(* a path-based attachment outside the base fails with the escape error *)
OutsideIsPathEscape ==
    \A i \in Invocations : \A k \in 1..Len(Atts(i)) :
      /\ FailedAt(i, k)
      /\ PathBased(Atts(i)[k])
      /\ ~WithinDir(CanonicalPath(Atts(i)[k]), CanonicalBase)
      => outcome[i].error = "PathEscape"

(* C1 as stated, its first half: for every configured value of the sandbox *)
(* root, a file's content is read, and enters a message, only if its       *)
(* canonical path is the canonical base or a descendant of it.             *)
C1_ContainmentAnyRoot == ReadsInside /\ OutsideNeverResolved

(* C1 amended: for every non-empty configured value of the sandbox root, a *)
(* file's content is read only if its canonical path is the canonical base *)
(* or a descendant of it; otherwise the read fails with the path-escape    *)
(* error and no content enters the message (an empty ATTACHMENTS_BASE_DIR  *)
(* switches the containment test off).                                     *)
C1_ContainmentNonEmptyRoot ==
    Truthy(ConfiguredBase) =>
      ReadsInside /\ OutsideNeverResolved /\ OutsideIsPathEscape

(* a traversal out of a non-empty root was refused with the escape error,  *)
(* after an attachment inside the root was read                            *)
C1_Witness ==
    /\ Truthy(ConfiguredBase)
    /\ Len(Atts(1)) = 2
    /\ Atts(1)[1].path = PathSubUpF /\ ResolvedAt(1, 1)
    /\ Atts(1)[2].path = PathSubOutside /\ FailedAt(1, 2)
    /\ outcome[1].error = "PathEscape"

(* ---------------------------------------------------------------------- *)
(* C2  no partial send                                                     *)
(* ---------------------------------------------------------------------- *)
(* C2: MailSender is called at most once per invocation, only with the     *)
(* message built from all the attachments, each resolved; when an          *)
(* attachment fails to resolve the call is never made and the invocation   *)
(* does not return {ok: true, message_id}.                                 *)
C2_NoPartialSend ==
    \A i \in Invocations :
      /\ Cardinality(SendCalls(i)) <= 1
      /\ \A n \in SendCalls(i) :
           /\ idx[i] = Len(Atts(i)) + 1
           /\ Len(msg[i].parts) = Len(Atts(i)) + 1
           /\ sent[n].raw = EncodedMessage(msg[i])
           /\ \A k \in 1..Len(Atts(i)) : resolve(Atts(i)[k], env).ok
      /\ outcome[i].status = "returned" => Cardinality(SendCalls(i)) = 1
      /\ SendCalls(i) # {} \/ outcome[i].status = "returned"
           => \A k \in 1..Len(Atts(i)) :
                ~FailedAt(i, k) /\ resolve(Atts(i)[k], env).ok

(* a request whose second attachment failed after the first was read: the  *)
(* invocation is over and nothing was sent                                 *)
C2_Witness ==
    /\ Len(Atts(1)) = 2 /\ FailedAt(1, 2)
    /\ outcome[1].status = "raised" /\ SendCalls(1) = {}
    /\ Len(msg[1].parts) = 2

(* ---------------------------------------------------------------------- *)
(* C3  size ceiling                                                        *)
(* ---------------------------------------------------------------------- *)
(* the read of att gets past the containment test of _safe_read_file *)
PassesSandbox(att) ==
    ~Truthy(ConfiguredBase) \/ InsideBase(CanonicalPath(att), CanonicalBase)

(* the size os.path.getsize reports for the file of att *)
SizeOf(att) == fs[OsPath(CanonicalPath(att))].size

PartData(i, k) == b64decode(msg[i].parts[k + 1].payload).data

(* the attachments among the first k of invocation i that name a path and  *)
(* no payload, present(x) telling whether a field is present               *)
PathOnly(i, k, present(_)) ==
    { j \in 1..k : present(Atts(i)[j].path) /\ ~present(Atts(i)[j].content_base64) }

(* the filesystem calls of a successful read, in order *)
ReadCalls == <<"getsize", "open", "read">>
CallsPerRead == Len(ReadCalls)

(* the decision table over a notion of presence, present(x) being a        *)
(* predicate on a field of the spec                                        *)
DecisionTable(present(_)) ==
    \A i \in Invocations :
      /\ pc[i] = "loop" =>
           Len(LogOf(i)) = CallsPerRead * Cardinality(PathOnly(i, idx[i] - 1, present))
      /\ \A k \in 1..Len(Atts(i)) :
           LET att == Atts(i)[k]
               both == present(att.content_base64) /\ present(att.path)
               neither == ~present(att.content_base64) /\ ~present(att.path)
           IN /\ ResolvedAt(i, k) => ~both /\ ~neither
              /\ FailedAt(i, k) /\ both =>
                   /\ outcome[i].error = "ConflictingSource"
                   /\ Len(LogOf(i)) =
                        CallsPerRead * Cardinality(PathOnly(i, k - 1, present))
              /\ FailedAt(i, k) /\ neither => outcome[i].error = "MissingSource"
              /\ ResolvedAt(i, k) /\ present(att.path) =>
                   /\ Exists(CanonicalPath(att))
                   /\ PartData(i, k) = fs[OsPath(CanonicalPath(att))].content
                   /\ \E n \in 1..Len(fsLog) :
                        fsLog[n] = [inv |-> i, op |-> "read", path |-> CanonicalPath(att)]
              /\ ResolvedAt(i, k) /\ present(att.content_base64) =>
                   PartData(i, k) = b64decode(att.content_base64).data
              /\ FailedAt(i, k) /\ present(att.content_base64) /\ ~present(att.path) =>
                   /\ outcome[i].error \in {"MissingFilename", "InvalidBase64"}
                   /\ Len(LogOf(i)) =
                        CallsPerRead * Cardinality(PathOnly(i, k - 1, present))

IsSet(x) == x # None

(* C4 as stated, a field being present when the spec sets it: both present *)
(* is the conflict error before any filesystem call, path alone is the     *)
(* sandboxed read, content_base64 alone is the decode without filesystem   *)
(* call, neither is the missing-source error.                              *)
C4_DecisionTableSet == DecisionTable(IsSet)

(* C4 amended: the same table, a field being present when it is set to a   *)
(* non-empty string (an empty string counts as absent).                    *)
C4_DecisionTableNonEmpty == DecisionTable(Truthy)

(* a base64 attachment was decoded and attached without filesystem call,   *)
(* then a spec with both sources failed with the conflict error            *)
C4_Witness ==
    /\ Len(Atts(1)) = 2
    /\ Base64Based(Atts(1)[1]) /\ ResolvedAt(1, 1)
    /\ BothSources(Atts(1)[2]) /\ FailedAt(1, 2)
    /\ outcome[1].error = "ConflictingSource"
    /\ fsLog = <<>>

(* ---------------------------------------------------------------------- *)
(* C5  one sandbox root per attachment                                     *)
(* ---------------------------------------------------------------------- *)
(* C5: once a relative path has been joined under a base directory and its *)
(* read validated, the base directory of the join and the base directory   *)
(* of the validation are the same value, also when ATTACHMENTS_BASE_DIR    *)
(* changes while the request is processed.                                 *)
C5_SingleRoot ==
    \A i \in Invocations :
      LET k == IF pc[i] = "raised" THEN idx[i] ELSE idx[i] - 1 IN
      /\ local[i].base_dir # None
      /\ k \in 1..Len(Atts(i))
      /\ PathBased(Atts(i)[k]) /\ ~isabs(Atts(i)[k].path)
      => local[i].base_dir = local[i].resolve_base_dir

(* ---------------------------------------------------------------------- *)
(* C6  non-empty filename                                                  *)
(* ---------------------------------------------------------------------- *)
(* C6: no attachment part of any message has an empty disposition          *)
(* filename, and a base64 attachment without filename fails with the       *)
(* missing-filename error.                                                 *)
C6_NonEmptyFilename ==
    \A i \in Invocations :
      /\ \A n \in 1..Len(msg[i].parts) :
           msg[i].parts[n].kind = "attachment" => Truthy(msg[i].parts[n].filename)
      /\ \A k \in 1..Len(Atts(i)) :
           Base64Based(Atts(i)[k]) /\ ~Truthy(Atts(i)[k].filename) =>
             /\ ~ResolvedAt(i, k)
             /\ FailedAt(i, k) => outcome[i].error = "MissingFilename"

(* ---------------------------------------------------------------------- *)
(* C7  message structure                                                   *)
(* ---------------------------------------------------------------------- *)
(* the bytes and the filename attachment att stands for *)
ExpectedData(att) ==
    IF Truthy(att.path) THEN fs[OsPath(CanonicalPath(att))].content
    ELSE b64decode(att.content_base64).data

ExpectedFilename(att) ==
    IF Truthy(att.filename) THEN att.filename
    ELSE basename(_resolve_attachment_path(att.path, ConfiguredBase))

(* the message of invocation i is complete: the loop is over *)
Built(i) == pc[i] \in {"send", "returned"} \/ (pc[i] = "raised" /\ idx[i] > Len(Atts(i)))

(* C7: at every point of the build the message is the body part followed   *)
(* by one attachment part per attachment resolved so far, in request       *)
(* order, part k + 1 carrying the data and the filename of attachment k;   *)
(* a built message has exactly one part per attachment after its body.     *)
C7_MessageStructure ==
    \A i \in Invocations :
      idx[i] >= 1 =>
        /\ msg[i].parts[1] = MIMEText(request[i].body, request[i].body_format)
        /\ Len(AttachmentParts(msg[i])) = Len(msg[i].parts) - 1
        /\ Len(msg[i].parts) = idx[i]
        /\ Built(i) => Len(msg[i].parts) = Len(Atts(i)) + 1
        /\ \A k \in 1..(idx[i] - 1) :
             /\ msg[i].parts[k + 1].kind = "attachment"
             /\ PartData(i, k) = ExpectedData(Atts(i)[k])
             /\ msg[i].parts[k + 1].filename = ExpectedFilename(Atts(i)[k])

(* a message was built from a file and a base64 payload, in that order *)
C7_Witness ==
    /\ Built(1) /\ Len(Atts(1)) = 2
    /\ Atts(1)[1].path = PathF /\ PathBased(Atts(1)[1])
    /\ Atts(1)[2].content_base64 = B64Hello /\ Base64Based(Atts(1)[2])
    /\ PartData(1, 1) = <<102>>
    /\ PartData(1, 2) = <<104, 101, 108, 108, 111>>
    /\ msg[1].parts[3].filename = NameATxt

(* ---------------------------------------------------------------------- *)
(* C9  malformed base64                                                    *)
(* ---------------------------------------------------------------------- *)
(* a well-formed payload: a multiple of four characters, all of the        *)
(* alphabet but for at most two "=" at the end                             *)
WellFormedBase64(s) ==
    /\ Len(s) % 4 = 0
    /\ \A n \in 1..Len(s) :
         \/ InAlphabet(s[n])
         \/ s[n] = BASE64_PAD /\ n >= Len(s) - 1 /\ (n = Len(s) \/ s[Len(s)] = BASE64_PAD)

(* C9: a base64 attachment with a malformed payload is never resolved, and *)
(* fails with the invalid-base64 error when it has a filename.             *)
C9_MalformedRejected ==
    \A i \in Invocations : \A k \in 1..Len(Atts(i)) :
      Base64Based(Atts(i)[k]) /\ ~WellFormedBase64(Atts(i)[k].content_base64) =>
        /\ ~ResolvedAt(i, k)
        /\ FailedAt(i, k) /\ Truthy(Atts(i)[k].filename)
             => outcome[i].error = "InvalidBase64"

(* ---------------------------------------------------------------------- *)
(* C10  fail-fast in request order                                         *)
(* ---------------------------------------------------------------------- *)
(* the filesystem calls of the attachments 1..k of invocation i, each      *)
(* resolved on its own                                                     *)
RECURSIVE CallsUpTo(_, _)
CallsUpTo(i, k) ==
    IF k = 0 THEN <<>>
    ELSE CallsUpTo(i, k - 1) \o Tagged(i, resolve(Atts(i)[k], env).log)

(* C10: when invocation i fails at attachment k, every attachment before k *)
(* resolves on its own and k does not, the error is the error of k, every  *)
(* path-based attachment before k has been read, and the filesystem calls  *)
(* made are those of attachments 1..k and no others; k - 1 attachment      *)
(* parts are in the message.                                               *)
C10_FailFast ==
    \A i \in Invocations : \A k \in 1..Len(Atts(i)) :
      FailedAt(i, k) =>
        /\ \A j \in 1..(k - 1) : resolve(Atts(i)[j], env).ok
        /\ ~resolve(Atts(i)[k], env).ok
        /\ outcome[i].error = resolve(Atts(i)[k], env).error
        /\ \A j \in 1..(k - 1) :
             PathBased(Atts(i)[j]) =>
               \E n \in 1..Len(fsLog) :
                 fsLog[n] = [inv |-> i, op |-> "read", path |-> CanonicalPath(Atts(i)[j])]
        /\ LogOf(i) = CallsUpTo(i, k)
        /\ Len(msg[i].parts) = k

(* the first of two attachments failed although the second, a readable     *)
(* file, would resolve: nothing was read                                   *)
C10_Witness ==
    /\ Len(Atts(1)) = 2 /\ FailedAt(1, 1)
    /\ outcome[1].error = "InvalidBase64"
    /\ Atts(1)[2].path = PathF /\ resolve(Atts(1)[2], env).ok
    /\ fsLog = <<>>

(* ---------------------------------------------------------------------- *)
(* C8  concurrent invocations do not interfere                             *)
(* ---------------------------------------------------------------------- *)
(* build_raw_email run alone on req in environment e, from attachment k on *)
(* with message m and filesystem calls log: the message, whether and where *)
(* it failed, and the calls made                                           *)
RECURSIVE buildFrom(_, _, _, _, _)
buildFrom(req, e, k, m, log) ==
    IF k > Len(req.attachments)
    THEN [ok |-> TRUE, error |-> "", failedAt |-> 0, message |-> m, log |-> log]
    ELSE LET r == resolve(req.attachments[k], e) IN
         IF r.ok
         THEN buildFrom(req, e, k + 1,
                        attach(m, AttachmentPart(r.mime_type, r.data, r.filename)),
                        log \o r.log)
         ELSE [ok |-> FALSE, error |-> r.error, failedAt |-> k, message |-> m,
               log |-> log \o r.log]

build_raw_email(req, e) ==
    buildFrom(req, e, 1,
              attach([To |-> req.to, Subject |-> req.subject, parts |-> <<>>],
                     MIMEText(req.body, req.body_format)),
              <<>>)

(* C8: whatever the interleaving of two invocations, the message, the      *)
(* failure (position and error) and the filesystem calls of each are those *)
(* of its own request run alone; its headers are its own request's; what   *)
(* MailSender gets from it is its own message.                             *)
C8_NoInterference ==
    \A i \in Invocations :
      LET alone == build_raw_email(request[i], env) IN
      /\ idx[i] >= 1 =>
           /\ msg[i].To = request[i].to
           /\ msg[i].Subject = request[i].subject
      /\ Built(i) =>
           /\ alone.ok
           /\ msg[i] = alone.message
           /\ LogOf(i) = Tagged(i, alone.log)
      /\ \A k \in 1..Len(Atts(i)) :
           FailedAt(i, k) =>
             /\ ~alone.ok /\ alone.failedAt = k
             /\ outcome[i].error = alone.error
             /\ msg[i] = alone.message
             /\ LogOf(i) = Tagged(i, alone.log)
      /\ \A n \in SendCalls(i) : sent[n].raw = EncodedMessage(alone.message)
      /\ outcome[i].status = "returned" => alone.ok

(* both invocations are over, with different requests: one sent a message  *)
(* with a file attached, the other failed on a path escape                 *)
C8_Witness ==
    /\ request[1].to # request[2].to
    /\ outcome[1].status = "returned" /\ Len(Atts(1)) = 2
    /\ pc[2] = "raised" /\ FailedAt(2, 2) /\ outcome[2].error = "PathEscape"
    /\ sent[1].inv = 1
    /\ \E n \in 1..Len(fsLog) : n > 1 /\ fsLog[n].inv = 1 /\ fsLog[n - 1].inv = 2

====
